---------------------------- MODULE Spec2Model ----------------------------
(***************************************************************************)
(* A model of the columnar dataset toolkit: the Statistics engine          *)
(* (food_statistics.py) and the preprocessing collaborators and their      *)
(* facade (preprocessing.py).                                              *)
(*                                                                         *)
(* Cell values.  A cell is None, a number or a string.  Every cell is a    *)
(* record [t, n, d, r, f]:                                                 *)
(*   t = "null"  None                                                      *)
(*   t = "str"   the string StrName[n]                                     *)
(*   t = "num"   the number (n / d) * sqrt(r), d > 0, gcd(n, d) = 1,       *)
(*               r squarefree; f says whether Python holds it as a float   *)
(*               (f = FALSE: an int).  Python floats are modelled by their *)
(*               exact value; the radical is there because stdev is        *)
(*               variance ** 0.5.                                          *)
(***************************************************************************)
EXTENDS Integers, Sequences, FiniteSets, TLC

VARIABLES heap, dataset, statistics, missing_values, scaler, encoder,
          phase, last, prev, ncalls

vars == <<heap, dataset, statistics, missing_values, scaler, encoder,
          phase, last, prev, ncalls>>

-----------------------------------------------------------------------------
(* Bounds of the model.                                                    *)

\* Rows of a dataset given to the facade.
MaxRows == 2
\* Rows of a dataset given to a stand-alone Statistics engine.
StatRows == 3
\* Calls made on one facade.
MaxCalls == 2
\* Rows of a dataset whose column is encoded.
EncodeRows == 3
\* The most rows of the column whose sequence of values is queried.
SequenceRows == 6

-----------------------------------------------------------------------------
(* Python values.                                                          *)

None == [t |-> "null", n |-> 0, d |-> 1, r |-> 1, f |-> FALSE]
IntV(k) == [t |-> "num", n |-> k, d |-> 1, r |-> 1, f |-> FALSE]
StrV(i) == [t |-> "str", n |-> i, d |-> 1, r |-> 1, f |-> FALSE]

\* The strings of the model, in ascending (lexicographic) order.
StrName == <<"x", "y">>

IsNone(v) == v.t = "null"
\* isinstance(v, (int, float))
IsNumber(v) == v.t = "num"
IsStr(v) == v.t = "str"

\* Python's ==: an int and a float of the same value are equal (and hash alike).
PyEq(x, y) == x.t = y.t /\ x.n = y.n /\ x.d = y.d /\ x.r = y.r

Abs(k) == IF k < 0 THEN -k ELSE k

RECURSIVE Gcd(_, _)
Gcd(a, b) == IF b = 0 THEN a ELSE Gcd(b, a % b)

\* The largest s with s * s dividing k (k >= 1), found by trial from j upward.
RECURSIVE SquarePart(_, _)
SquarePart(k, j) ==
    IF j * j > k THEN 1
    ELSE IF k % (j * j) = 0 THEN j * SquarePart(k \div (j * j), j)
    ELSE SquarePart(k, j + 1)

\* The number (n / d) * sqrt(r) in normal form; d # 0, r >= 1.
Num(n, d, r, f) ==
    IF n = 0 THEN [t |-> "num", n |-> 0, d |-> 1, r |-> 1, f |-> f]
    ELSE LET s  == SquarePart(r, 2)
             n1 == (IF d < 0 THEN -n ELSE n) * s
             d1 == Abs(d)
             g  == Gcd(Abs(n1), d1)
         IN  [t |-> "num", n |-> n1 \div g, d |-> d1 \div g,
              r |-> r \div (s * s), f |-> f]

\* x + y.  Two non-zero numbers are added only when they share the radical.
Add(x, y) ==
    IF x.n = 0 THEN [y EXCEPT !.f = x.f \/ y.f]
    ELSE IF y.n = 0 THEN [x EXCEPT !.f = x.f \/ y.f]
    ELSE IF x.r = y.r
         THEN Num(x.n * y.d + y.n * x.d, x.d * y.d, x.r, x.f \/ y.f)
         ELSE CHOOSE z \in {} : TRUE

Neg(x) == [x EXCEPT !.n = -x.n]
Sub(x, y) == Add(x, Neg(y))
Mul(x, y) == Num(x.n * y.n, x.d * y.d, x.r * y.r, x.f \/ y.f)

\* x / y, Python's true division (always a float); y # 0.
Div(x, y) == Num(x.n * y.d, x.d * y.n * y.r, x.r * y.r, TRUE)

\* x ** 0.5 for a rational x >= 0.
Sqrt(x) ==
    IF x.n = 0 THEN Num(0, 1, 1, TRUE)
    ELSE IF x.r = 1 /\ x.n > 0 THEN Num(1, x.d, x.n * x.d, TRUE)
    ELSE CHOOSE z \in {} : TRUE

\* x < y on numbers: by sign, then by the squares.
Sq(x) == x.n * x.n * x.r
NumLt(x, y) ==
    IF x.n < 0 /\ y.n >= 0 THEN TRUE
    ELSE IF x.n >= 0 /\ y.n < 0 THEN FALSE
    ELSE IF x.n >= 0 THEN Sq(x) * y.d * y.d < Sq(y) * x.d * x.d
    ELSE Sq(x) * y.d * y.d > Sq(y) * x.d * x.d

\* x < y is defined between two numbers and between two strings only.
Orderable(x, y) == (IsNumber(x) /\ IsNumber(y)) \/ (IsStr(x) /\ IsStr(y))
PyLt(x, y) == IF IsNumber(x) THEN NumLt(x, y) ELSE x.n < y.n

-----------------------------------------------------------------------------
(* Python lists, sorted() and insertion-ordered dicts.                     *)

NotNone(v) == ~IsNone(v)

\* sum(s) of numbers, starting from the int 0.
RECURSIVE Sum(_)
Sum(s) == IF s = <<>> THEN IntV(0) ELSE Add(Sum(SubSeq(s, 1, Len(s) - 1)), s[Len(s)])

\* sorted(s) raises TypeError as soon as it compares two values that have no
\* order: a list of two or more elements must hold only numbers or only
\* strings (None < None is a TypeError too).  A list of one element is never
\* compared.
SortRaises(s) ==
    Len(s) >= 2 /\ \E i, j \in 1..Len(s) : i # j /\ ~Orderable(s[i], s[j])

RECURSIVE Insert(_, _)
Insert(v, s) ==
    IF s = <<>> THEN <<v>>
    ELSE IF PyLt(v, Head(s)) THEN <<v>> \o s
    ELSE <<Head(s)>> \o Insert(v, Tail(s))

\* sorted(s) when it does not raise: ascending and stable.
RECURSIVE Sorted(_)
Sorted(s) ==
    IF s = <<>> THEN <<>>
    ELSE Insert(s[Len(s)], Sorted(SubSeq(s, 1, Len(s) - 1)))

\* A dict is the sequence of its items [k, v] in insertion order.
DictHas(dct, key) == \E i \in 1..Len(dct) : PyEq(dct[i].k, key)
DictIndex(dct, key) == CHOOSE i \in 1..Len(dct) : PyEq(dct[i].k, key)
DictGet(dct, key) == dct[DictIndex(dct, key)].v
\* dct[key] = val: an existing key keeps its place (and its first-seen key object).
DictSet(dct, key, val) ==
    IF DictHas(dct, key)
    THEN [dct EXCEPT ![DictIndex(dct, key)].v = val]
    ELSE Append(dct, [k |-> key, v |-> val])
DictKeys(dct) == [i \in 1..Len(dct) |-> dct[i].k]
DictValues(dct) == [i \in 1..Len(dct) |-> dct[i].v]

\* The distinct values of s, each by its first occurrence ({v for v in s}).
RECURSIVE Distinct(_)
Distinct(s) ==
    IF s = <<>> THEN <<>>
    ELSE LET init == Distinct(SubSeq(s, 1, Len(s) - 1))
             v    == s[Len(s)]
         IN  IF \E i \in 1..Len(init) : PyEq(init[i], v) THEN init
             ELSE Append(init, v)

-----------------------------------------------------------------------------
(* The dataset: a dict from column name to list, as the sequence of its    *)
(* items [k |-> name, v |-> list] in insertion order.                      *)

Has(ds, column) == \E i \in 1..Len(ds) : ds[i].k = column
IndexOf(ds, column) == CHOOSE i \in 1..Len(ds) : ds[i].k = column
Get(ds, column) == ds[IndexOf(ds, column)].v
\* ds[column] = values
Put(ds, column, values) ==
    IF Has(ds, column)
    THEN [ds EXCEPT ![IndexOf(ds, column)].v = values]
    ELSE Append(ds, [k |-> column, v |-> values])
\* del ds[column]
Del(ds, column) == SelectSeq(ds, LAMBDA e : e.k # column)
Keys(ds) == [i \in 1..Len(ds) |-> ds[i].k]

\* What a call does: it returns a value or raises an exception.
Return(v) == [kind |-> "return", exc |-> "", val |-> v]
Raise(e) == [kind |-> "raise", exc |-> e, val |-> None]
Returned(out) == out.kind = "return"
Raised(out, e) == out.kind = "raise" /\ out.exc = e

-----------------------------------------------------------------------------
(* food_statistics.py: class Statistics.                                   *)
(*                                                                         *)
(* A constructor argument is [isdict, items]: items is the sequence of     *)
(* [k |-> name, kind |-> "list" | "tuple" | "scalar", v |-> elements]; a   *)
(* tuple is a sized value that is not a list, a scalar has no len().       *)

\* The dict as the objects hold it once every value is known to be a list.
Stored(raw) == [i \in 1..Len(raw.items) |-> [k |-> raw.items[i].k, v |-> raw.items[i].v]]

\* Statistics.__init__
StatisticsInit(raw) ==
    IF ~raw.isdict THEN Raise("TypeError")
    ELSE IF \E i \in 1..Len(raw.items) : raw.items[i].kind # "list"
         THEN Raise("TypeError")
    ELSE IF raw.items = <<>> THEN Raise("ValueError")
    ELSE IF Cardinality({Len(raw.items[i].v) : i \in 1..Len(raw.items)}) # 1
         THEN Raise("ValueError")
    ELSE Return(None)

\* Statistics.__init__ on a dict of lists the program already holds.
StatisticsOver(ds) ==
    StatisticsInit([isdict |-> TRUE,
                    items |-> [i \in 1..Len(ds) |-> [k |-> ds[i].k, kind |-> "list", v |-> ds[i].v]]])

\* The number of parameters _validate_column takes besides self.
ValidateColumnParams == 1

\* self._validate_column(column)
ValidateColumn(ds, column) ==
    IF ~Has(ds, column) THEN Raise("KeyError") ELSE Return(None)

Valid(values) == SelectSeq(values, NotNone)

\* Statistics.mean
Mean(ds, column) ==
    IF ~Returned(ValidateColumn(ds, column)) THEN ValidateColumn(ds, column)
    ELSE LET valores_validos == Valid(Get(ds, column))
         IN  IF valores_validos = <<>> THEN Raise("ValueError")
             \* sum() starts from 0: int + str is a TypeError
             ELSE IF \E i \in 1..Len(valores_validos) : IsStr(valores_validos[i])
                  THEN Raise("TypeError")
             ELSE Return(Div(Sum(valores_validos), IntV(Len(valores_validos))))

\* Statistics.median
Median(ds, column) ==
    IF ~Returned(ValidateColumn(ds, column)) THEN ValidateColumn(ds, column)
    ELSE LET valores_coluna  == Get(ds, column)
             valores_validos == Valid(valores_coluna)
             quantidade_valores == Len(valores_coluna)
             coluna_ordenada == Sorted(valores_coluna)
             \* the 0-based index quantidade_valores // 2, as a 1-based position
             indice == (quantidade_valores \div 2) + 1
         IN  IF valores_validos = <<>> THEN Raise("ValueError")
             ELSE IF \E i \in 1..Len(valores_validos) : ~IsNumber(valores_validos[i])
                  THEN Raise("TypeError")
             \* sorted(valores_coluna): the unfiltered column
             ELSE IF SortRaises(valores_coluna) THEN Raise("TypeError")
             ELSE IF quantidade_valores % 2 = 0
                  THEN Return(Div(Add(coluna_ordenada[indice - 1], coluna_ordenada[indice]),
                                  IntV(2)))
                  ELSE Return(coluna_ordenada[indice])

\* The frequency table of a list: {value: count} in order of first appearance.
RECURSIVE CountInto(_, _)
CountInto(frequencia, values) ==
    IF values = <<>> THEN frequencia
    ELSE LET value == Head(values)
         IN  CountInto(IF DictHas(frequencia, value)
                       THEN DictSet(frequencia, value, Add(DictGet(frequencia, value), IntV(1)))
                       ELSE DictSet(frequencia, value, IntV(1)),
                       Tail(values))

\* Statistics.absolute_frequency
AbsoluteFrequency(ds, column) ==
    IF ~Returned(ValidateColumn(ds, column)) THEN ValidateColumn(ds, column)
    ELSE IF Get(ds, column) = <<>> THEN Raise("ValueError")
    ELSE Return(CountInto(<<>>, Get(ds, column)))

\* max(s) of a non-empty list of numbers
MaxOf(s) == CHOOSE m \in {s[i] : i \in 1..Len(s)} : \A i \in 1..Len(s) : ~NumLt(m, s[i])
\* min(s) of a non-empty list of numbers
MinOf(s) == CHOOSE m \in {s[i] : i \in 1..Len(s)} : \A i \in 1..Len(s) : ~NumLt(s[i], m)

\* Statistics.mode
Mode(ds, column) ==
    IF ~Returned(ValidateColumn(ds, column)) THEN ValidateColumn(ds, column)
    ELSE IF Valid(Get(ds, column)) = <<>> THEN Raise("ValueError")
    ELSE LET frequencias == AbsoluteFrequency(ds, column).val
             numero_maximo_repeticoes == MaxOf(DictValues(frequencias))
             modas == SelectSeq(frequencias, LAMBDA e : PyEq(e.v, numero_maximo_repeticoes))
         IN  Return(DictKeys(modas))

\* Statistics.variance
Variance(ds, column) ==
    LET media_aritimetica == Mean(ds, column)
    IN  IF ~Returned(media_aritimetica) THEN media_aritimetica
        ELSE LET valores_coluna == Get(ds, column)
                 valores_validos == Valid(valores_coluna)
                 desvios == [i \in 1..Len(valores_coluna) |->
                               LET dv == Sub(valores_coluna[i], media_aritimetica.val)
                               IN  Mul(dv, dv)]
             IN  \* None - float is a TypeError
                 IF \E i \in 1..Len(valores_coluna) : IsNone(valores_coluna[i])
                 THEN Raise("TypeError")
                 ELSE Return(Div(Sum(desvios), IntV(Len(valores_validos))))

\* Statistics.stdev
Stdev(ds, column) ==
    IF ~Returned(ValidateColumn(ds, column)) THEN ValidateColumn(ds, column)
    ELSE IF Valid(Get(ds, column)) = <<>> THEN Raise("ValueError")
    ELSE LET variancia == Variance(ds, column)
         IN  IF ~Returned(variancia) THEN variancia
             ELSE Return(Sqrt(variancia.val))

\* Statistics.covariance.  Its first statement calls
\* self._validate_column(column_a, column_b): two arguments for a method that
\* takes ValidateColumnParams, which is a TypeError at the call.
Covariance(ds, column_a, column_b) ==
    IF ValidateColumnParams # 2 THEN Raise("TypeError")
    ELSE IF ~Has(ds, column_a) \/ ~Has(ds, column_b) THEN Raise("KeyError")
    ELSE LET valores_coluna_a == Get(ds, column_a)
             valores_coluna_b == Get(ds, column_b)
             N == Len(valores_coluna_a)
             pares_validos == {i \in 1..N : ~IsNone(valores_coluna_a[i])
                                             /\ ~IsNone(valores_coluna_b[i])}
             media_coluna_a == Mean(ds, column_a)
             media_coluna_b == Mean(ds, column_b)
             produtos == [i \in 1..N |->
                            Mul(Sub(valores_coluna_a[i], media_coluna_a.val),
                                Sub(valores_coluna_b[i], media_coluna_b.val))]
         IN  IF valores_coluna_a = <<>> \/ valores_coluna_b = <<>> THEN Raise("ValueError")
             ELSE IF pares_validos = {} THEN Raise("ValueError")
             ELSE IF ~Returned(media_coluna_a) THEN media_coluna_a
             ELSE IF ~Returned(media_coluna_b) THEN media_coluna_b
             ELSE IF \E i \in 1..N : IsNone(valores_coluna_a[i]) \/ IsNone(valores_coluna_b[i])
                  THEN Raise("TypeError")
             ELSE Return(Div(Sum(produtos), IntV(N)))

\* Statistics.itemset: a set, modelled by the set of its elements.
Itemset(ds, column) ==
    IF ~Returned(ValidateColumn(ds, column)) THEN ValidateColumn(ds, column)
    ELSE IF Get(ds, column) = <<>> THEN Raise("ValueError")
    ELSE LET unicos == Distinct(Get(ds, column))
         IN  Return({unicos[i] : i \in 1..Len(unicos)})

\* The loop of relative_frequency over the items of frequencia_absoluta:
\*   if valor not in frequencia_relativa: frequencia_relativa[chave] = valor / numero_itens
\* where valor is the count and `in` looks it up among the keys.
RECURSIVE RelativeInto(_, _, _)
RelativeInto(frequencia_relativa, items, numero_itens) ==
    IF items = <<>> THEN frequencia_relativa
    ELSE LET chave == Head(items).k
             valor == Head(items).v
         IN  RelativeInto(IF ~DictHas(frequencia_relativa, valor)
                          THEN DictSet(frequencia_relativa, chave, Div(valor, IntV(numero_itens)))
                          ELSE frequencia_relativa,
                          Tail(items), numero_itens)

\* Statistics.relative_frequency
RelativeFrequency(ds, column) ==
    LET frequencia_absoluta == AbsoluteFrequency(ds, column)
    IN  IF ~Returned(frequencia_absoluta) THEN frequencia_absoluta
        ELSE Return(RelativeInto(<<>>, frequencia_absoluta.val, Len(Get(ds, column))))

\* The running sums of cumulative_frequency over the sorted keys.
RECURSIVE Accumulate(_, _, _, _)
Accumulate(acumulada, chaves, frequencia, soma) ==
    IF chaves = <<>> THEN acumulada
    ELSE LET chave == Head(chaves)
             nova  == Add(soma, DictGet(frequencia, chave))
         IN  Accumulate(DictSet(acumulada, chave, nova), Tail(chaves), frequencia, nova)

\* Statistics.cumulative_frequency
CumulativeFrequency(ds, column, frequency_method) ==
    IF ~Returned(ValidateColumn(ds, column)) THEN ValidateColumn(ds, column)
    ELSE IF frequency_method \notin {"absolute", "relative"} THEN Raise("ValueError")
    ELSE LET frequencia == IF frequency_method = "absolute"
                           THEN AbsoluteFrequency(ds, column)
                           ELSE RelativeFrequency(ds, column)
         IN  IF ~Returned(frequencia) THEN frequencia
             ELSE IF SortRaises(DictKeys(frequencia.val)) THEN Raise("TypeError")
             ELSE Return(Accumulate(<<>>, Sorted(DictKeys(frequencia.val)),
                                    frequencia.val, IntV(0)))

\* A KeyError object handed back as a value (return KeyError(...)).
KeyErrorObject == [t |-> "KeyError", n |-> 0, d |-> 1, r |-> 1, f |-> FALSE]
IsException(v) == v.t = "KeyError"

\* conditional_probability, had its loop counted value2 at the last index too.
ConditionalProbabilityCountingLast(ds, column, value1, value2) ==
    IF ~Returned(ValidateColumn(ds, column)) THEN ValidateColumn(ds, column)
    ELSE LET valores_coluna == Get(ds, column)
             tamanho_lista == Len(valores_coluna)
             evento_b == Cardinality({i \in 1..tamanho_lista :
                                        PyEq(valores_coluna[i], value2)})
             evento_a_b == Cardinality({i \in 1..(tamanho_lista - 1) :
                                          PyEq(valores_coluna[i], value2)
                                          /\ PyEq(valores_coluna[i + 1], value1)})
         IN  IF tamanho_lista < 2 THEN Return(KeyErrorObject)
             ELSE IF evento_b = 0 THEN Return(KeyErrorObject)
             ELSE Return(Div(IntV(evento_a_b), IntV(evento_b)))

\* Statistics.conditional_probability
ConditionalProbability(ds, column, value1, value2) ==
    IF ~Returned(ValidateColumn(ds, column)) THEN ValidateColumn(ds, column)
    ELSE LET valores_coluna == Get(ds, column)
             tamanho_lista == Len(valores_coluna)
             evento_b == Cardinality({i \in 1..(tamanho_lista - 1) :
                                        PyEq(valores_coluna[i], value2)})
             evento_a_b == Cardinality({i \in 1..(tamanho_lista - 1) :
                                          PyEq(valores_coluna[i], value2)
                                          /\ PyEq(valores_coluna[i + 1], value1)})
         IN  IF tamanho_lista < 2 THEN Return(KeyErrorObject)
             ELSE IF evento_b = 0 THEN Return(KeyErrorObject)
             ELSE Return(Div(IntV(evento_a_b), IntV(evento_b)))

-----------------------------------------------------------------------------
(* preprocessing.py: MissingValueProcessor.                                *)
(*                                                                         *)
(* A `columns` argument is a set of names; it is modelled by the sequence  *)
(* in which Python iterates it (any order of its elements), <<>> standing  *)
(* for None and for the empty set.                                         *)

\* An operation that may write the dict: the dict it leaves and what the call does.
Effect(ds, out) == [ds |-> ds, out |-> out]

\* MissingValueProcessor._get_target_columns, Scaler._get_target_columns
GetTargetColumns(ds, columns) == IF columns # <<>> THEN columns ELSE Keys(ds)

\* all(self.dataset[col][i] is not None for col in colunas_verificar): stops at
\* the first None; a name that is not a column is a KeyError when it is reached.
RECURSIVE RowAll(_, _, _)
RowAll(ds, colunas, i) ==
    IF colunas = <<>> THEN "true"
    ELSE IF ~Has(ds, Head(colunas)) THEN "KeyError"
    ELSE IF IsNone(Get(ds, Head(colunas))[i]) THEN "false"
    ELSE RowAll(ds, Tail(colunas), i)

\* any(self.dataset[coluna][i] is None for coluna in colunas_verificar)
RECURSIVE RowAny(_, _, _)
RowAny(ds, colunas, i) ==
    IF colunas = <<>> THEN "false"
    ELSE IF ~Has(ds, Head(colunas)) THEN "KeyError"
    ELSE IF IsNone(Get(ds, Head(colunas))[i]) THEN "true"
    ELSE RowAny(ds, Tail(colunas), i)

\* The rows of ds, in order, whose test says "true", as a new dict with the
\* columns of ds; tests[i] is the test of row i.
RowsWhere(ds, tests) ==
    [c \in 1..Len(ds) |->
        [k |-> ds[c].k,
         v |-> LET idx == SelectSeq([i \in 1..Len(ds[c].v) |-> i],
                                    LAMBDA i : tests[i] = "true")
               IN  [j \in 1..Len(idx) |-> ds[c].v[idx[j]]]]]

\* The body shared by isna and notna, tests[i] being the any() or all() of row i.
SelectRows(ds, tests) ==
    \* len(self.dataset[next(iter(self.dataset))]) on a dict without columns
    IF ds = <<>> THEN Raise("StopIteration")
    ELSE IF \E i \in 1..Len(ds[1].v) : tests[i] = "KeyError" THEN Raise("KeyError")
    ELSE Return(RowsWhere(ds, tests))

\* The number of rows: the length of the first column.
NumRows(ds) == IF ds = <<>> THEN 0 ELSE Len(ds[1].v)

\* MissingValueProcessor.isna
Isna(ds, columns) ==
    SelectRows(ds, [i \in 1..NumRows(ds) |-> RowAny(ds, GetTargetColumns(ds, columns), i)])

\* MissingValueProcessor.notna
Notna(ds, columns) ==
    SelectRows(ds, [i \in 1..NumRows(ds) |-> RowAll(ds, GetTargetColumns(ds, columns), i)])

\* The list fillna writes, had it left the None cells out instead of replacing them.
FilledDroppingNone(values, valor_preenchimento) == SelectSeq(values, NotNone)

\* [valor_preenchimento if valor_coluna is None else valor_coluna for ...]
Filled(values, valor_preenchimento) ==
    [i \in 1..Len(values) |-> IF IsNone(values[i]) THEN valor_preenchimento ELSE values[i]]

FillMethods == {"mean", "median", "mode", "default_value"}

\* The loop of fillna over colunas_verificar; every pass that has a fill
\* value writes its column before the next pass starts.
RECURSIVE FillLoop(_, _, _, _)
FillLoop(ds, colunas, method, default_value) ==
    IF colunas = <<>> THEN Effect(ds, Return(None))
    ELSE LET coluna == Head(colunas)
             stat == IF method = "mean" THEN Mean(ds, coluna)
                     ELSE IF method = "median" THEN Median(ds, coluna)
                     ELSE Mode(ds, coluna)
             valor_preenchimento ==
                 IF method = "default_value" THEN default_value
                 ELSE IF method = "mode"
                      THEN (IF stat.val # <<>> THEN stat.val[1] ELSE None)
                      ELSE stat.val
         IN  IF method \notin FillMethods THEN Effect(ds, Raise("ValueError"))
             ELSE IF method # "default_value" /\ ~Returned(stat) THEN Effect(ds, stat)
             ELSE IF IsNone(valor_preenchimento)
                  THEN FillLoop(ds, Tail(colunas), method, default_value)
             \* self.dataset[coluna] is read for the list comprehension
             ELSE IF ~Has(ds, coluna) THEN Effect(ds, Raise("KeyError"))
             ELSE FillLoop(Put(ds, coluna, Filled(Get(ds, coluna), valor_preenchimento)),
                           Tail(colunas), method, default_value)

\* MissingValueProcessor.fillna
Fillna(ds, columns, method, default_value) ==
    IF ~Returned(StatisticsOver(ds)) THEN Effect(ds, StatisticsOver(ds))
    ELSE FillLoop(ds, GetTargetColumns(ds, columns), method, default_value)

-----------------------------------------------------------------------------
(* preprocessing.py: Scaler.                                               *)

Numeric(values) == SelectSeq(values, IsNumber)
Float0 == Num(0, 1, 1, TRUE)

\* [0.0 if isinstance(valor, (int, float)) else valor for valor in valores]
Zeroed(values) ==
    [i \in 1..Len(values) |-> IF IsNumber(values[i]) THEN Float0 ELSE values[i]]

\* (valor - centre) / scale on the numeric cells, the others unchanged
Rescaled(values, centre, scale) ==
    [i \in 1..Len(values) |->
        IF IsNumber(values[i]) THEN Div(Sub(values[i], centre), scale) ELSE values[i]]

\* The loop of minMax_scaler over colunas_verificar.
RECURSIVE MinMaxLoop(_, _)
MinMaxLoop(ds, colunas) ==
    IF colunas = <<>> THEN Effect(ds, Return(None))
    ELSE LET coluna == Head(colunas)
             valores == Get(ds, coluna)
             valores_numericos == Numeric(valores)
             valor_minimo == MinOf(valores_numericos)
             valor_maximo == MaxOf(valores_numericos)
             intervalo_valores == Sub(valor_maximo, valor_minimo)
         IN  IF ~Has(ds, coluna) THEN Effect(ds, Raise("KeyError"))
             ELSE IF valores_numericos = <<>> THEN MinMaxLoop(ds, Tail(colunas))
             ELSE MinMaxLoop(Put(ds, coluna,
                                 IF intervalo_valores.n = 0 THEN Zeroed(valores)
                                 ELSE Rescaled(valores, valor_minimo, intervalo_valores)),
                             Tail(colunas))

\* Scaler.minMax_scaler
MinMaxScaler(ds, columns) == MinMaxLoop(ds, GetTargetColumns(ds, columns))

\* The loop of standard_scaler; filtrado is the dict the Statistics engine of
\* the call was built on.
RECURSIVE StandardLoop(_, _, _)
StandardLoop(ds, colunas, filtrado) ==
    IF colunas = <<>> THEN Effect(ds, Return(None))
    ELSE LET coluna == Head(colunas)
             valores == Get(ds, coluna)
             media_aritmetica == Mean(filtrado, coluna)
             desvio_padrao == Stdev(filtrado, coluna)
         IN  IF ~Has(ds, coluna) THEN Effect(ds, Raise("KeyError"))
             ELSE IF Numeric(valores) = <<>> THEN StandardLoop(ds, Tail(colunas), filtrado)
             ELSE IF ~Returned(media_aritmetica) THEN Effect(ds, media_aritmetica)
             ELSE IF ~Returned(desvio_padrao) THEN Effect(ds, desvio_padrao)
             ELSE StandardLoop(Put(ds, coluna,
                                   IF desvio_padrao.val.n = 0 THEN Zeroed(valores)
                                   ELSE Rescaled(valores, media_aritmetica.val,
                                                 desvio_padrao.val)),
                               Tail(colunas), filtrado)

\* Scaler.standard_scaler
StandardScaler(ds, columns) ==
    LET valores_filtrados == Notna(ds, <<>>)
    IN  IF ~Returned(valores_filtrados) THEN Effect(ds, valores_filtrados)
        ELSE IF ~Returned(StatisticsOver(valores_filtrados.val))
             THEN Effect(ds, StatisticsOver(valores_filtrados.val))
        ELSE StandardLoop(ds, GetTargetColumns(ds, columns), valores_filtrados.val)

-----------------------------------------------------------------------------
(* preprocessing.py: Encoder.                                              *)

Digit == <<"0", "1", "2", "3", "4", "5", "6", "7", "8", "9">>

\* str(k) of a natural number
RECURSIVE NatStr(_)
NatStr(k) == IF k < 10 THEN Digit[k + 1] ELSE NatStr(k \div 10) \o Digit[(k % 10) + 1]

\* str(k) of an int
IntStr(k) == IF k < 0 THEN "-" \o NatStr(-k) ELSE NatStr(k)

\* k written with exactly `places` digits
RECURSIVE Padded(_, _)
Padded(k, places) ==
    IF places = 0 THEN "" ELSE Padded(k \div 10, places - 1) \o Digit[(k % 10) + 1]

\* The digits of the fraction num / 10^places, trailing zeros dropped.
RECURSIVE FracStr(_, _)
FracStr(num, places) ==
    IF num % 10 = 0 /\ places > 1 THEN FracStr(num \div 10, places - 1)
    ELSE Padded(num, places)

\* repr(x) of a float.  A value with at most four decimals is written as
\* Python writes it ("1.0", "0.5", "-0.25"); any other value is written by its
\* exact form, which like repr gives different values different texts.
FloatStr(x) ==
    IF x.r = 1 /\ 10000 % x.d = 0
    THEN LET a == Abs(x.n) * (10000 \div x.d)
         IN  (IF x.n < 0 THEN "-" ELSE "") \o NatStr(a \div 10000) \o "."
             \o FracStr(a % 10000, 4)
    ELSE IntStr(x.n) \o "/" \o NatStr(x.d) \o "*sqrt(" \o NatStr(x.r) \o ")"

\* f"{v}" of a category
Format(v) ==
    IF IsStr(v) THEN StrName[v.n]
    ELSE IF v.f THEN FloatStr(v)
    ELSE IntStr(v.n)

\* sorted({valor for valor in valores if valor is not None})
Categories(valores) == Distinct(Valid(valores))

\* {categoria: i for i, categoria in enumerate(categorias)}[valor]
CodeOf(categorias, valor) == (CHOOSE i \in 1..Len(categorias) : PyEq(categorias[i], valor)) - 1

\* The loop of label_encode over columns.
RECURSIVE LabelLoop(_, _)
LabelLoop(ds, columns) ==
    IF columns = <<>> THEN Effect(ds, Return(None))
    ELSE LET coluna == Head(columns)
             valores == Get(ds, coluna)
             categorias == Sorted(Categories(valores))
             colunas_codificadas ==
                 [i \in 1..Len(valores) |->
                     IF IsNone(valores[i]) THEN None
                     ELSE IntV(CodeOf(categorias, valores[i]))]
         IN  IF ~Has(ds, coluna) THEN LabelLoop(ds, Tail(columns))
             ELSE IF SortRaises(Categories(valores)) THEN Effect(ds, Raise("TypeError"))
             ELSE LabelLoop(Put(ds, coluna, colunas_codificadas), Tail(columns))

\* Encoder.label_encode
LabelEncode(ds, columns) == LabelLoop(ds, columns)

\* nova_coluna = f"{coluna}_{categoria}"
NovaColuna(coluna, categoria) == coluna \o "_" \o Format(categoria)

\* The inner loop of oneHot_encode: one indicator column for each category.
RECURSIVE IndicatorLoop(_, _, _, _)
IndicatorLoop(ds, coluna, valores, categorias) ==
    IF categorias = <<>> THEN ds
    ELSE LET categoria == Head(categorias)
             valores_nova_coluna ==
                 [i \in 1..Len(valores) |->
                     IF PyEq(valores[i], categoria) THEN IntV(1) ELSE IntV(0)]
         IN  IndicatorLoop(Put(ds, NovaColuna(coluna, categoria), valores_nova_coluna),
                           coluna, valores, Tail(categorias))

\* The loop of oneHot_encode, had it no `del self.dataset[coluna]`.
RECURSIVE OneHotLoopKeepingColumn(_, _)
OneHotLoopKeepingColumn(ds, columns) ==
    IF columns = <<>> THEN Effect(ds, Return(None))
    ELSE LET coluna == Head(columns)
             valores == Get(ds, coluna)
         IN  IF ~Has(ds, coluna) THEN Effect(ds, Raise("KeyError"))
             ELSE IF SortRaises(Categories(valores)) THEN Effect(ds, Raise("TypeError"))
             ELSE OneHotLoopKeepingColumn(IndicatorLoop(ds, coluna, valores,
                                                        Sorted(Categories(valores))),
                                          Tail(columns))

\* The loop of oneHot_encode over columns.
RECURSIVE OneHotLoop(_, _)
OneHotLoop(ds, columns) ==
    IF columns = <<>> THEN Effect(ds, Return(None))
    ELSE LET coluna == Head(columns)
             valores == Get(ds, coluna)
         IN  IF ~Has(ds, coluna) THEN Effect(ds, Raise("KeyError"))
             ELSE IF SortRaises(Categories(valores)) THEN Effect(ds, Raise("TypeError"))
             ELSE OneHotLoop(Del(IndicatorLoop(ds, coluna, valores,
                                               Sorted(Categories(valores))),
                                 coluna),
                             Tail(columns))

\* Encoder.oneHot_encode
OneHotEncode(ds, columns) == OneHotLoop(ds, columns)

-----------------------------------------------------------------------------
(* preprocessing.py: Preprocessing, the facade.                            *)

\* The loop of _validate_dataset_shape over the items, from item i on.
RECURSIVE ShapeLoop(_, _, _)
ShapeLoop(items, i, tamanho_lista_referencia) ==
    IF i > Len(items) THEN Return(None)
    \* len() of a value that has none
    ELSE IF items[i].kind = "scalar" THEN Raise("TypeError")
    ELSE IF Len(items[i].v) # tamanho_lista_referencia THEN Raise("ValueError")
    ELSE ShapeLoop(items, i + 1, tamanho_lista_referencia)

\* Preprocessing._validate_dataset_shape
ValidateDatasetShape(raw) ==
    \* self.dataset.values() of a value that is no dict
    IF ~raw.isdict THEN Raise("AttributeError")
    \* next(iter(...)) of a dict without items
    ELSE IF raw.items = <<>> THEN Raise("StopIteration")
    ELSE IF raw.items[1].kind = "scalar" THEN Raise("TypeError")
    ELSE ShapeLoop(raw.items, 1, Len(raw.items[1].v))

\* Preprocessing.__init__
PreprocessingInit(raw) ==
    IF ~Returned(ValidateDatasetShape(raw)) THEN ValidateDatasetShape(raw)
    ELSE StatisticsInit(raw)

\* Preprocessing.scale, on the dict the Scaler holds.
Scale(ds, columns, method) ==
    IF method = "minMax" THEN MinMaxScaler(ds, columns)
    ELSE IF method = "standard" THEN StandardScaler(ds, columns)
    ELSE Effect(ds, Raise("ValueError"))

\* Preprocessing.encode, on the dict the Encoder holds.
Encode(ds, columns, method) ==
    IF columns = <<>> THEN Effect(ds, Return(None))
    ELSE IF method = "label" THEN LabelEncode(ds, columns)
    ELSE IF method = "oneHot" THEN OneHotEncode(ds, columns)
    ELSE Effect(ds, Raise("ValueError"))

-----------------------------------------------------------------------------
(* The inputs of the model.                                                *)

\* The cells a caller puts in a column.
Cells == {None, IntV(1), IntV(2), StrV(1)}
\* The cells of the second column of a dataset given to the facade.
SecondCells == {None, StrV(1)}
\* The cells of the second column of a dataset given to a stand-alone engine.
StatSecondCells == {None, IntV(1)}
\* The cells of the second column of a dataset whose column "a" is encoded.
EncodeSecondCells == {IntV(2)}
\* The cells of the column that is encoded: ints, floats (0.5, 1.0) and strings.
EncodeCells == {None, IntV(1), IntV(2), Num(1, 2, 1, TRUE), Num(1, 1, 1, TRUE),
                StrV(1), StrV(2)}

\* The lists of at most n cells of C.
ListsUpTo(n, C) == UNION {[1..k -> C] : k \in 0..n}

\* The values of a constructor argument: lists, and two values that are no lists.
ValuesUpTo(n, C) ==
    {[kind |-> "list", v |-> l] : l \in ListsUpTo(n, C)}
    \cup {[kind |-> "tuple", v |-> <<IntV(1)>>], [kind |-> "scalar", v |-> <<>>]}

Item(name, value) == [k |-> name, kind |-> value.kind, v |-> value.v]

\* The constructor arguments: a value that is no dict, the empty dict, and the
\* dicts of one column "a" or of two columns "a", "b".
RawInputs ==
    {[isdict |-> FALSE, items |-> <<>>], [isdict |-> TRUE, items |-> <<>>]}
    \cup {[isdict |-> TRUE, items |-> <<Item("a", x)>>] : x \in ValuesUpTo(MaxRows, Cells)}
    \cup {[isdict |-> TRUE, items |-> <<Item("a", x), Item("b", y)>>] :
             x \in ValuesUpTo(MaxRows, Cells), y \in ValuesUpTo(MaxRows, SecondCells)}

\* The datasets a stand-alone engine is queried on: one column "a", or two
\* columns "a", "b" of the same length.
StatDatasets ==
    {<<[k |-> "a", v |-> x]>> : x \in ListsUpTo(StatRows, Cells)}
    \cup {ds \in {<<[k |-> "a", v |-> x], [k |-> "b", v |-> y]>> :
                     x \in ListsUpTo(StatRows, Cells),
                     y \in ListsUpTo(StatRows, StatSecondCells)} :
             Len(ds[1].v) = Len(ds[2].v)}

\* The datasets whose column "a" is encoded: "a" alone, or "a" and a second
\* column, which may bear the name of an indicator column of "a".
EncodeSecondNames == {"b", "a_1", "a_x"}
EncodeDatasets ==
    {<<[k |-> "a", v |-> x]>> : x \in ListsUpTo(EncodeRows, EncodeCells)}
    \cup {ds \in {<<[k |-> "a", v |-> x], [k |-> name, v |-> y]>> :
                     x \in ListsUpTo(EncodeRows, EncodeCells),
                     y \in ListsUpTo(EncodeRows, EncodeSecondCells),
                     name \in EncodeSecondNames} :
             Len(ds[1].v) = Len(ds[2].v)}

\* The names a caller passes: the two columns and a name that is no column.
ArgNames == {"a", "b", "c"}

\* The `columns` arguments: None or the empty set, one name, or the two
\* columns in either iteration order.
ColumnArgs == {<<>>, <<"a", "b">>, <<"b", "a">>} \cup {<<x>> : x \in ArgNames}
\* The `columns` arguments of the calls that encode "a".
EncodeColumnArgs == {<<>>, <<"a">>, <<"c">>, <<"a", "b">>, <<"a", "a_1">>, <<"a_1", "a">>}

FillArgs == {"mean", "median", "mode", "default_value", "max"}
DefaultValues == {None, IntV(0), StrV(1)}
ScaleArgs == {"minMax", "standard", "robust"}
EncodeArgs == {"label", "oneHot", "binary"}
FrequencyArgs == {"absolute", "relative", "cumulative"}

\* The datasets of two columns "a", "b" of one length a facade is built on to
\* be written by a sequence of calls, and the arguments of these calls.
ShapeDatasets ==
    {ds \in {<<[k |-> "a", v |-> x], [k |-> "b", v |-> y]>> :
                x \in ListsUpTo(MaxRows, Cells), y \in ListsUpTo(MaxRows, SecondCells)} :
        Len(ds[1].v) = Len(ds[2].v)}
ShapeFillArgs == {"mean", "mode", "default_value"}
ShapeDropArgs == {<<>>, <<"b">>}
ShapeScaleArgs == {"minMax", "standard"}
ShapeEncodeArgs == {<<"a">>, <<"b">>}
ShapeEncodeMethods == {"label", "oneHot"}

\* The values of a column queried as a sequence, and the datasets of one such
\* column "a".
SequenceCells == {IntV(1), IntV(2), StrV(1)}
SequenceDatasets == {<<[k |-> "a", v |-> x]>> : x \in ListsUpTo(SequenceRows, SequenceCells)}

-----------------------------------------------------------------------------
(* The state.                                                              *)
(*                                                                         *)
(* heap maps each live dict object to its content.  dataset, statistics,   *)
(* missing_values, scaler and encoder are the dict each of the facade, its *)
(* Statistics, MissingValueProcessor, Scaler and Encoder holds in its      *)
(* .dataset attribute (0: the object does not exist).  phase is where the  *)
(* caller is: "new" before it constructs anything, "failed" once a         *)
(* constructor raised, "engine" holding a stand-alone Statistics it has    *)
(* not queried yet, "answered" once it has, "facade" holding a             *)
(* Preprocessing.  last is the call made last with what it did, prev the   *)
(* heap as that call found it, ncalls the calls made on the facade.        *)

NoRaw == [isdict |-> TRUE, items |-> <<>>]
Call(op, raw, cols, method, v1, v2, out) ==
    [op |-> op, raw |-> raw, cols |-> cols, method |-> method,
     v1 |-> v1, v2 |-> v2, out |-> out]
NoCall == Call("none", NoRaw, <<>>, "", None, None, Return(None))

\* A fresh object identity.
NewId(h) == CHOOSE i \in 1..(Cardinality(DOMAIN h) + 1) :
               i \notin DOMAIN h /\ \A j \in 1..(i - 1) : j \in DOMAIN h

\* The heap once the dicts nothing refers to are reclaimed.
Reclaim(h, refs) == [i \in (DOMAIN h) \cap refs |-> h[i]]

\* Nothing is constructed yet.
Init ==
    /\ heap = <<>>
    /\ dataset = 0 /\ statistics = 0 /\ missing_values = 0
    /\ scaler = 0 /\ encoder = 0
    /\ phase = "new"
    /\ last = NoCall
    /\ prev = <<>>
    /\ ncalls = 0

\* The state Statistics(ds) leaves.
EngineOver(ds) ==
    /\ heap = (1 :> ds)
    /\ statistics = 1
    /\ dataset = 0 /\ missing_values = 0 /\ scaler = 0 /\ encoder = 0
    /\ phase = "engine"

\* The state Preprocessing(ds) leaves.
FacadeOver(ds) ==
    /\ heap = (1 :> ds)
    /\ dataset = 1 /\ statistics = 1 /\ missing_values = 1
    /\ scaler = 1 /\ encoder = 1
    /\ phase = "facade"

\* A stand-alone engine on a dataset its constructor accepts.
InitStats ==
    /\ \E ds \in StatDatasets : Returned(StatisticsOver(ds)) /\ EngineOver(ds)
    /\ last = NoCall
    /\ prev = <<>>
    /\ ncalls = 0

\* A stand-alone engine on one column of up to SequenceRows rows.
InitSequence ==
    /\ \E ds \in SequenceDatasets : Returned(StatisticsOver(ds)) /\ EngineOver(ds)
    /\ last = NoCall
    /\ prev = <<>>
    /\ ncalls = 0

\* A facade on a dataset its constructor accepts, with one call left to make.
InitEncode ==
    /\ \E ds \in EncodeDatasets : Returned(StatisticsOver(ds)) /\ FacadeOver(ds)
    /\ last = NoCall
    /\ prev = <<>>
    /\ ncalls = MaxCalls - 1

\* A facade on a dataset of two columns, with MaxCalls calls to make.
InitShape ==
    /\ \E ds \in ShapeDatasets : Returned(StatisticsOver(ds)) /\ FacadeOver(ds)
    /\ last = NoCall
    /\ prev = <<>>
    /\ ncalls = 0

\* Statistics(raw) by the caller.
NewStatistics(raw) ==
    /\ phase = "new"
    /\ LET out == StatisticsInit(raw)
       IN  /\ last' = Call("Statistics", raw, <<>>, "", None, None, out)
           /\ IF Returned(out)
              THEN /\ heap' = (1 :> Stored(raw))
                   /\ statistics' = 1
                   /\ phase' = "engine"
                   /\ UNCHANGED <<dataset, missing_values, scaler, encoder>>
              ELSE /\ phase' = "failed"
                   /\ UNCHANGED <<heap, dataset, statistics, missing_values,
                                  scaler, encoder>>
    /\ prev' = heap
    /\ UNCHANGED ncalls

\* Preprocessing(raw) by the caller.
NewPreprocessing(raw) ==
    /\ phase = "new"
    /\ LET out == PreprocessingInit(raw)
       IN  /\ last' = Call("Preprocessing", raw, <<>>, "", None, None, out)
           /\ IF Returned(out)
              THEN /\ heap' = (1 :> Stored(raw))
                   /\ dataset' = 1 /\ statistics' = 1 /\ missing_values' = 1
                   /\ scaler' = 1 /\ encoder' = 1
                   /\ phase' = "facade"
              ELSE /\ phase' = "failed"
                   /\ UNCHANGED <<heap, dataset, statistics, missing_values,
                                  scaler, encoder>>
    /\ prev' = heap
    /\ UNCHANGED ncalls

\* A query of the stand-alone engine: the engine only reads its dict.
Query(call) ==
    /\ phase = "engine"
    /\ last' = call
    /\ phase' = "answered"
    /\ prev' = heap
    /\ UNCHANGED <<heap, dataset, statistics, missing_values, scaler, encoder, ncalls>>

\* One column, one statistic: mean, median, mode, variance, stdev, itemset,
\* absolute_frequency, relative_frequency.
QueryMean(column) ==
    Query(Call("mean", NoRaw, <<column>>, "", None, None, Mean(heap[statistics], column)))
QueryMedian(column) ==
    Query(Call("median", NoRaw, <<column>>, "", None, None, Median(heap[statistics], column)))
QueryMode(column) ==
    Query(Call("mode", NoRaw, <<column>>, "", None, None, Mode(heap[statistics], column)))
QueryVariance(column) ==
    Query(Call("variance", NoRaw, <<column>>, "", None, None,
               Variance(heap[statistics], column)))
QueryStdev(column) ==
    Query(Call("stdev", NoRaw, <<column>>, "", None, None, Stdev(heap[statistics], column)))
QueryItemset(column) ==
    Query(Call("itemset", NoRaw, <<column>>, "", None, None,
               Itemset(heap[statistics], column)))
QueryAbsoluteFrequency(column) ==
    Query(Call("absolute_frequency", NoRaw, <<column>>, "", None, None,
               AbsoluteFrequency(heap[statistics], column)))
QueryRelativeFrequency(column) ==
    Query(Call("relative_frequency", NoRaw, <<column>>, "", None, None,
               RelativeFrequency(heap[statistics], column)))
QueryCovariance(column_a, column_b) ==
    Query(Call("covariance", NoRaw, <<column_a, column_b>>, "", None, None,
               Covariance(heap[statistics], column_a, column_b)))
QueryCumulativeFrequency(column, frequency_method) ==
    Query(Call("cumulative_frequency", NoRaw, <<column>>, frequency_method, None, None,
               CumulativeFrequency(heap[statistics], column, frequency_method)))
QueryConditionalProbability(column, value1, value2) ==
    Query(Call("conditional_probability", NoRaw, <<column>>, "", value1, value2,
               ConditionalProbability(heap[statistics], column, value1, value2)))

\* A call on the facade that leaves every reference as it is.
FacadeCall(call, h) ==
    /\ last' = call
    /\ heap' = h
    /\ prev' = heap
    /\ ncalls' = ncalls + 1
    /\ UNCHANGED <<dataset, statistics, missing_values, scaler, encoder, phase>>

\* Preprocessing.isna
FacadeIsna(columns) ==
    /\ phase = "facade" /\ ncalls < MaxCalls
    /\ FacadeCall(Call("isna", NoRaw, columns, "", None, None,
                       Isna(heap[missing_values], columns)), heap)

\* Preprocessing.notna
FacadeNotna(columns) ==
    /\ phase = "facade" /\ ncalls < MaxCalls
    /\ FacadeCall(Call("notna", NoRaw, columns, "", None, None,
                       Notna(heap[missing_values], columns)), heap)

\* Preprocessing.fillna
FacadeFillna(columns, method, default_value) ==
    /\ phase = "facade" /\ ncalls < MaxCalls
    /\ LET e == Fillna(heap[missing_values], columns, method, default_value)
       IN  FacadeCall(Call("fillna", NoRaw, columns, method, default_value, None, e.out),
                      [heap EXCEPT ![missing_values] = e.ds])

\* Preprocessing.dropna: MissingValueProcessor.dropna binds the new dict that
\* notna built to the processor's own attribute.
FacadeDropna(columns) ==
    /\ phase = "facade" /\ ncalls < MaxCalls
    /\ LET out == Notna(heap[missing_values], columns)
           id  == NewId(heap)
       IN  /\ last' = Call("dropna", NoRaw, columns, "", None, None,
                           IF Returned(out) THEN Return(None) ELSE out)
           /\ IF Returned(out)
              THEN /\ missing_values' = id
                   /\ heap' = Reclaim(heap @@ (id :> out.val),
                                      {dataset, statistics, id, scaler, encoder})
              ELSE UNCHANGED <<heap, missing_values>>
    /\ prev' = heap
    /\ ncalls' = ncalls + 1
    /\ UNCHANGED <<dataset, statistics, scaler, encoder, phase>>

\* Preprocessing.scale
FacadeScale(columns, method) ==
    /\ phase = "facade" /\ ncalls < MaxCalls
    /\ LET e == Scale(heap[scaler], columns, method)
       IN  FacadeCall(Call("scale", NoRaw, columns, method, None, None, e.out),
                      [heap EXCEPT ![scaler] = e.ds])

\* Preprocessing.encode
FacadeEncode(columns, method) ==
    /\ phase = "facade" /\ ncalls < MaxCalls
    /\ LET e == Encode(heap[encoder], columns, method)
       IN  FacadeCall(Call("encode", NoRaw, columns, method, None, None, e.out),
                      [heap EXCEPT ![encoder] = e.ds])

\* The queries of a stand-alone engine.
NextStats ==
    \/ \E column \in ArgNames : QueryMean(column)
    \/ \E column \in ArgNames : QueryMedian(column)
    \/ \E column \in ArgNames : QueryMode(column)
    \/ \E column \in ArgNames : QueryVariance(column)
    \/ \E column \in ArgNames : QueryStdev(column)
    \/ \E column \in ArgNames : QueryItemset(column)
    \/ \E column \in ArgNames : QueryAbsoluteFrequency(column)
    \/ \E column \in ArgNames : QueryRelativeFrequency(column)
    \/ \E column_a \in ArgNames, column_b \in ArgNames : QueryCovariance(column_a, column_b)
    \/ \E column \in ArgNames, frequency_method \in FrequencyArgs :
          QueryCumulativeFrequency(column, frequency_method)
    \/ \E column \in ArgNames, value1 \in Cells, value2 \in Cells :
          QueryConditionalProbability(column, value1, value2)

\* The calls on a facade.
NextFacade ==
    \/ \E columns \in ColumnArgs : FacadeIsna(columns)
    \/ \E columns \in ColumnArgs : FacadeNotna(columns)
    \/ \E columns \in ColumnArgs, method \in FillArgs \ {"default_value"} :
          FacadeFillna(columns, method, IntV(0))
    \/ \E columns \in ColumnArgs, default_value \in DefaultValues :
          FacadeFillna(columns, "default_value", default_value)
    \/ \E columns \in ColumnArgs : FacadeDropna(columns)
    \/ \E columns \in ColumnArgs, method \in ScaleArgs : FacadeScale(columns, method)
    \/ \E columns \in ColumnArgs, method \in EncodeArgs : FacadeEncode(columns, method)

\* The encode calls on a facade.
NextEncode ==
    \E columns \in EncodeColumnArgs, method \in EncodeArgs : FacadeEncode(columns, method)

\* The calls on a facade that write its dataset.
NextShape ==
    \/ \E method \in ShapeFillArgs : FacadeFillna(<<>>, method, IntV(0))
    \/ \E columns \in ShapeDropArgs : FacadeDropna(columns)
    \/ \E method \in ShapeScaleArgs : FacadeScale(<<>>, method)
    \/ \E columns \in ShapeEncodeArgs, method \in ShapeEncodeMethods :
          FacadeEncode(columns, method)

\* The conditional probabilities asked of the column "a".
NextSequence ==
    \E value1 \in SequenceCells, value2 \in SequenceCells :
        QueryConditionalProbability("a", value1, value2)

Next ==
    \/ \E raw \in RawInputs : NewStatistics(raw)
    \/ \E raw \in RawInputs : NewPreprocessing(raw)
    \/ NextStats
    \/ NextFacade

\* The whole program: a caller that constructs an engine and queries it, or
\* constructs a facade and makes up to MaxCalls calls on it.
Spec == Init /\ [][Next]_vars

\* A stand-alone engine on a larger dataset, queried once.
SpecStats == InitStats /\ [][NextStats]_vars

\* A facade on a dataset of ints, floats and strings, encoded once.
SpecEncode == InitEncode /\ [][NextEncode]_vars

\* A facade on a dataset of two columns, written by up to MaxCalls calls.
SpecShape == InitShape /\ [][NextShape]_vars

\* A stand-alone engine on one longer column, asked one conditional probability.
SpecSequence == InitSequence /\ [][NextSequence]_vars

-----------------------------------------------------------------------------
(* The claims.                                                             *)

\* The dict the stand-alone engine reads, and the column the last query named.
Engine == heap[statistics]
QueriedColumn == Get(Engine, last.cols[1])
Asked(op) == phase = "answered" /\ last.op = op

\* The number of cells of values equal to v.
Occurrences(values, v) == Cardinality({i \in 1..Len(values) : PyEq(values[i], v)})
\* Two lists hold equal values at every position.
SameList(s, t) == Len(s) = Len(t) /\ \A i \in 1..Len(s) : PyEq(s[i], t[i])

\* C1: conditional_probability(column, value1, value2) on an existing column
\* raises (it never returns a value) whenever the column has fewer than 2 rows
\* or value2 occurs at no index in [0, N-2].
C1_UndefinedProbabilityRaises ==
    (/\ Asked("conditional_probability")
     /\ Has(Engine, last.cols[1])
     /\ \/ Len(QueriedColumn) < 2
        \/ \A i \in 1..(Len(QueriedColumn) - 1) : ~PyEq(QueriedColumn[i], last.v2))
    => last.out.kind = "raise"

\* C2: for a non-empty column relative_frequency returns a dict whose keys are
\* exactly the distinct values of the column, each with its number of
\* occurrences divided by the number of rows; the values sum to 1 when the
\* column has no None.
C2_RelativeFrequencyTable ==
    (Asked("relative_frequency") /\ Has(Engine, last.cols[1]) /\ QueriedColumn # <<>>)
    => /\ Returned(last.out)
       /\ \A i \in 1..Len(QueriedColumn) : DictHas(last.out.val, QueriedColumn[i])
       /\ \A j \in 1..Len(last.out.val) :
             /\ Occurrences(QueriedColumn, last.out.val[j].k) > 0
             /\ PyEq(last.out.val[j].v,
                     Div(IntV(Occurrences(QueriedColumn, last.out.val[j].k)),
                         IntV(Len(QueriedColumn))))
       /\ (\A i \in 1..Len(QueriedColumn) : ~IsNone(QueriedColumn[i]))
             => PyEq(Sum(DictValues(last.out.val)), IntV(1))

\* C3: for a column with a value that is not None, mode returns the values
\* other than None whose number of occurrences is the largest among them, in
\* order of first appearance; None is never in the result.
C3_ModeOfNonNull ==
    (Asked("mode") /\ Has(Engine, last.cols[1]) /\ Valid(QueriedColumn) # <<>>)
    => /\ Returned(last.out)
       /\ SameList(last.out.val,
                   SelectSeq(Distinct(Valid(QueriedColumn)),
                             LAMBDA v : \A i \in 1..Len(Valid(QueriedColumn)) :
                                 Occurrences(Valid(QueriedColumn), Valid(QueriedColumn)[i])
                                     <= Occurrences(Valid(QueriedColumn), v)))
       /\ \A i \in 1..Len(last.out.val) : ~IsNone(last.out.val[i])

\* The median of a non-empty list of numbers.
MedianOf(values) ==
    LET s == Sorted(values)
        M == Len(s)
    IN  IF M % 2 = 1 THEN s[(M + 1) \div 2]
        ELSE Div(Add(s[M \div 2], s[(M \div 2) + 1]), IntV(2))

\* C4: for a column whose values other than None are numbers, M >= 1 of them,
\* median returns the central element of their ascending order when M is odd
\* and the average of the two central elements when M is even; None cells
\* neither change the result nor make the call fail.
C4_MedianOfNonNull ==
    (/\ Asked("median")
     /\ Has(Engine, last.cols[1])
     /\ Valid(QueriedColumn) # <<>>
     /\ \A i \in 1..Len(QueriedColumn) : IsNone(QueriedColumn[i]) \/ IsNumber(QueriedColumn[i]))
    => /\ Returned(last.out)
       /\ PyEq(last.out.val, MedianOf(Valid(QueriedColumn)))

\* A column of numbers only, with at least one row.
NumbersOnly(values) ==
    values # <<>> /\ \A i \in 1..Len(values) : IsNumber(values[i])

\* The sum over the rows of the products of the deviations from the means,
\* divided by the number of rows.
CovarianceOf(x, y) ==
    LET mx == Div(Sum(x), IntV(Len(x)))
        my == Div(Sum(y), IntV(Len(y)))
    IN  Div(Sum([i \in 1..Len(x) |-> Mul(Sub(x[i], mx), Sub(y[i], my))]), IntV(Len(x)))

\* C5: covariance of two existing columns of numbers without None returns the
\* sum of the products of the deviations from each column's mean divided by
\* N, and covariance(c, c) returns what variance(c) returns.
C5_CovarianceIsVariance ==
    (/\ Asked("covariance")
     /\ Has(Engine, last.cols[1]) /\ Has(Engine, last.cols[2])
     /\ NumbersOnly(Get(Engine, last.cols[1])) /\ NumbersOnly(Get(Engine, last.cols[2])))
    => /\ Returned(last.out)
       /\ PyEq(last.out.val,
               CovarianceOf(Get(Engine, last.cols[1]), Get(Engine, last.cols[2])))
       /\ last.cols[1] = last.cols[2]
             => PyEq(last.out.val, Variance(Engine, last.cols[1]).val)

StatisticsOps ==
    {"mean", "median", "mode", "variance", "stdev", "covariance", "itemset",
     "absolute_frequency", "relative_frequency", "cumulative_frequency",
     "conditional_probability"}

\* C6: every Statistics operation that takes a column, called with a name that
\* is no column of the dataset (either name, for covariance), raises KeyError,
\* whatever its other arguments are.
C6_MissingColumnIsKeyError ==
    (/\ phase = "answered"
     /\ last.op \in StatisticsOps
     /\ \E i \in 1..Len(last.cols) : ~Has(Engine, last.cols[i]))
    => Raised(last.out, "KeyError")

\* The Dataset invariants: a mapping of at least one column, every column a
\* non-empty sequence, all of one length.
DatasetInvariants(raw) ==
    /\ raw.isdict
    /\ raw.items # <<>>
    /\ \A i \in 1..Len(raw.items) :
          raw.items[i].kind # "scalar" /\ Len(raw.items[i].v) >= 1
    /\ \A i, j \in 1..Len(raw.items) : Len(raw.items[i].v) = Len(raw.items[j].v)

\* An empty mapping, a value that is no sequence, or columns of different lengths.
Malformed(raw) ==
    /\ raw.isdict
    /\ \/ raw.items = <<>>
       \/ \E i \in 1..Len(raw.items) : raw.items[i].kind = "scalar"
       \/ \E i, j \in 1..Len(raw.items) : Len(raw.items[i].v) # Len(raw.items[j].v)

\* C7: constructing a Statistics or a Preprocessing succeeds only on a dataset
\* that satisfies the Dataset invariants, and on an empty mapping, a value that
\* is no sequence or columns of different lengths it raises ValueError or
\* TypeError.
C7_ConstructionValidates ==
    last.op \in {"Statistics", "Preprocessing"}
    => /\ Returned(last.out) => DatasetInvariants(last.raw)
       /\ Malformed(last.raw)
             => (Raised(last.out, "ValueError") \/ Raised(last.out, "TypeError"))

\* No row of ds has None in a column of colunas.
NoNullRows(ds, colunas) ==
    ds # <<>> => \A i \in 1..Len(ds[1].v) : \A c \in 1..Len(colunas) :
                    Has(ds, colunas[c]) => ~IsNone(Get(ds, colunas[c])[i])

\* C8: after any facade calls the facade, its Statistics, its
\* MissingValueProcessor, its Scaler and its Encoder see one dataset, and after
\* dropna the dataset each of them sees has no row with None in the columns
\* dropna was given.
C8_OneSharedDataset ==
    phase = "facade"
    => /\ heap[statistics] = heap[dataset]
       /\ heap[missing_values] = heap[dataset]
       /\ heap[scaler] = heap[dataset]
       /\ heap[encoder] = heap[dataset]
       /\ (last.op = "dropna" /\ Returned(last.out))
             => \A ref \in {dataset, statistics, missing_values, scaler, encoder} :
                   NoNullRows(heap[ref], GetTargetColumns(heap[ref], last.cols))

\* The columns the fillna call made last was to fill, in the dataset it found.
FillTargets == GetTargetColumns(prev[missing_values], last.cols)

\* C9: a fillna call over several columns of the dataset that raises (on its
\* method name, or in the statistic of one of the columns) has written no
\* column: the dataset is as the call found it.
C9_FillnaAllOrNothing ==
    (/\ phase = "facade" /\ last.op = "fillna" /\ last.out.kind = "raise"
     /\ Len(FillTargets) >= 2
     /\ \A c \in 1..Len(FillTargets) : Has(prev[missing_values], FillTargets[c]))
    => heap[missing_values] = prev[missing_values]

\* The call made last encoded the one column it was given with oneHot.
OneHotDone ==
    /\ phase = "facade"
    /\ last.op = "encode" /\ last.method = "oneHot"
    /\ Len(last.cols) = 1
    /\ Returned(last.out)

\* The column as the oneHot call found it, and its distinct values other than None.
Encoded == Get(prev[encoder], last.cols[1])
EncodedValues == Distinct(SelectSeq(Encoded, NotNone))
IndicatorNames ==
    {last.cols[1] \o "_" \o Format(EncodedValues[j]) : j \in 1..Len(EncodedValues)}

OrderableColumn(values) ==
    values # <<>> /\ \A i, j \in 1..Len(values) : Orderable(values[i], values[j])

\* C11: for a non-empty column of mutually orderable values and a mode of
\* absolute or relative, cumulative_frequency returns a dict in ascending key
\* order whose values are non-decreasing running sums, the last of them the
\* number of rows (absolute) or 1 (relative); any other mode raises ValueError.
C11_CumulativeFrequency ==
    (/\ Asked("cumulative_frequency")
     /\ Has(Engine, last.cols[1])
     /\ OrderableColumn(QueriedColumn))
    => IF last.method \in {"absolute", "relative"}
       THEN /\ Returned(last.out)
            /\ last.out.val # <<>>
            /\ \A j \in 1..(Len(last.out.val) - 1) :
                  /\ PyLt(last.out.val[j].k, last.out.val[j + 1].k)
                  /\ ~NumLt(last.out.val[j + 1].v, last.out.val[j].v)
            /\ PyEq(last.out.val[Len(last.out.val)].v,
                    IF last.method = "absolute" THEN IntV(Len(QueriedColumn)) ELSE IntV(1))
       ELSE Raised(last.out, "ValueError")

\* The indices i in [0, N-2] (1..N-1 here) at which the column holds value2, and
\* those of them followed by value1.
BIndices == {i \in 1..(Len(QueriedColumn) - 1) : PyEq(QueriedColumn[i], last.v2)}
JointIndices == {i \in BIndices : PyEq(QueriedColumn[i + 1], last.v1)}

\* conditional_probability was asked of a column of N >= 2 rows in which value2
\* occurs at an index in [0, N-2].
ProbabilityDefined ==
    /\ Asked("conditional_probability")
    /\ Has(Engine, last.cols[1])
    /\ Len(QueriedColumn) >= 2
    /\ BIndices # {}

\* C12: for a column of N >= 2 rows in which value2 occurs at an index in
\* [0, N-2], conditional_probability returns joint / B-count, B-count being the
\* number of indices i in [0, N-2] holding value2 and joint the number of those
\* followed by value1; value2 at the last index is not counted and the result
\* lies in [0, 1].
C12_ConditionalProbability ==
    ProbabilityDefined
    => /\ Returned(last.out)
       /\ IsNumber(last.out.val)
       /\ PyEq(last.out.val, Div(IntV(Cardinality(JointIndices)), IntV(Cardinality(BIndices))))
       /\ ~NumLt(last.out.val, IntV(0))
       /\ ~NumLt(IntV(1), last.out.val)

\* The sequence [B, A, B, A, B, C], with A = 1, B = 2 and C = "x".
ExampleSequence == <<IntV(2), IntV(1), IntV(2), IntV(1), IntV(2), StrV(1)>>

\* C12 as the specification words it, its example included: the formula of
\* C12, and 1.0 for (A, B) on [B, A, B, A, B, C].
C12_WithExample ==
    /\ C12_ConditionalProbability
    /\ (/\ ProbabilityDefined
        /\ QueriedColumn = ExampleSequence
        /\ last.v1 = IntV(1) /\ last.v2 = IntV(2))
       => PyEq(last.out.val, IntV(1))

\* value2 is the last cell too and is counted twice or more before it, followed
\* by value1 at some of these places and not at others.
C12_Witness ==
    /\ ProbabilityDefined
    /\ PyEq(QueriedColumn[Len(QueriedColumn)], last.v2)
    /\ Cardinality(BIndices) >= 2
    /\ JointIndices # {} /\ JointIndices # BIndices
    /\ Returned(last.out)

\* The fillna call made last returned, its method a statistic.
FilledByStatistic ==
    /\ phase = "facade"
    /\ last.op = "fillna" /\ Returned(last.out)
    /\ last.method \in {"mean", "median", "mode"}

\* C13: after a fillna call with method mean, median or mode that returns, no
\* target column holds None, every cell that was not None keeps its value and
\* place, and the None cells of a column are all replaced by one value.
C13_FillnaLeavesNoNull ==
    FilledByStatistic
    => \A c \in 1..Len(FillTargets) :
          LET before == Get(prev[missing_values], FillTargets[c])
              after  == Get(heap[missing_values], FillTargets[c])
          IN  /\ Len(after) = Len(before)
              /\ \A i \in 1..Len(after) :
                    /\ ~IsNone(after[i])
                    /\ ~IsNone(before[i]) => after[i] = before[i]
              /\ \A i, j \in 1..Len(after) :
                    (IsNone(before[i]) /\ IsNone(before[j])) => after[i] = after[j]

\* The dicts the facade and its four collaborators hold.
Holders == {dataset, statistics, missing_values, scaler, encoder}

\* All columns of ds have one length.
Rectangular(ds) == \A i, j \in 1..Len(ds) : Len(ds[i].v) = Len(ds[j].v)

\* Every column of after has the length the columns of before have.
RowCountKept(before, after) ==
    \A i \in 1..Len(after) : \A j \in 1..Len(before) : Len(after[i].v) = Len(before[j].v)

\* The facade call made last, one that writes the dataset, returned.
Wrote(ops) == phase = "facade" /\ last.op \in ops /\ Returned(last.out)

\* C14: from a dataset the facade accepted, after any fillna, dropna, scale
\* and encode calls, the columns of the dataset each collaborator holds have
\* one length, and a call other than dropna that returns leaves every column
\* of every collaborator's dataset as long as the columns were before it.
C14_Rectangular ==
    phase = "facade"
    => /\ \A ref \in Holders : Rectangular(heap[ref])
       /\ Wrote({"fillna", "scale", "encode"})
             => \A ref \in Holders : RowCountKept(prev[ref], heap[ref])

\* After a dropna that removed a row, a column of two or more rows was filled,
\* scaled or encoded, beside another column.
C14_Witness ==
    /\ Wrote({"fillna", "scale", "encode"})
    /\ missing_values # dataset
    /\ Len(heap[missing_values]) >= 2 /\ Len(heap[dataset]) >= 2
    /\ Len(heap[dataset][1].v) >= 2
    /\ Len(heap[missing_values][1].v) < Len(heap[dataset][1].v)
    /\ heap # prev

=============================================================================
